---- MODULE Spec2Model ----
(***************************************************************************)
(* Model of src/src/App.tsx: the reveal-board minigame (gameState and its  *)
(* handlers) as the React component runs it.  A user intent is a click or  *)
(* key event; the element that carries the handler exists only where the   *)
(* JSX renders it, so every action is the render condition, the inline     *)
(* onClick guard and the handler's state updater taken together.  The dice *)
(* thrower (diceState, rollDice) is the second panel of the same component.*)
(***************************************************************************)
EXTENDS Integers, Sequences, FiniteSets, TLC

VARIABLES gameState, diceState, tab, op

vars == <<gameState, diceState, tab, op>>

\* ---- bounds ----
\* the shuffle may rotate the pool by 0..MaxShuffle places
MaxShuffle == 1
\* largest reading of the millisecond clock Date.now() a round can start at
MaxNow == 0
\* most dice one roll draws, explosions included; a roll that needs more is
\* not followed
MaxRolls == 5
\* the circles of a rating the model clicks: the first MaxStar of the five
MaxStar == 2

\* ---- types (App.tsx 33-52) ----
OutcomeType == {"good", "bad", "retry"}
Tier == {"basic", "advanced", "hard"}
TabType == {"minigame", "dice"}
Phase == {"input", "playing", "summary", "end"}
null == "null"

\* what parseInt makes of the number field's text (App.tsx 392): NaN for
\* text it cannot read, otherwise an integer
FieldValues == {[nan |-> TRUE, n |-> 0]} \cup {[nan |-> FALSE, n |-> v] : v \in -1..4}

\* ---- generateTokens (App.tsx 165-204) ----
\* the basic pool as it would be with a third retry token in place of the bad one
basic_threeRetry == << [type |-> "good", tier |-> "basic"],
                       [type |-> "retry", tier |-> "basic"],
                       [type |-> "retry", tier |-> "basic"],
                       [type |-> "retry", tier |-> "basic"] >>

basic == << [type |-> "good", tier |-> "basic"],
            [type |-> "bad", tier |-> "basic"],
            [type |-> "retry", tier |-> "basic"],
            [type |-> "retry", tier |-> "basic"] >>

advanced == << [type |-> "good", tier |-> "advanced"],
               [type |-> "good", tier |-> "advanced"],
               [type |-> "bad", tier |-> "advanced"],
               [type |-> "bad", tier |-> "advanced"] >>

hard == << [type |-> "good", tier |-> "hard"],
           [type |-> "bad", tier |-> "hard"] >>

MathMin(a, b) == IF a < b THEN a ELSE b

MathMax(a, b) == IF a > b THEN a ELSE b

removeAdvanced(successes) == MathMin(successes, 2)

\* removeHard as it would be with the threshold one too low
removeHard_offByOne(successes) == MathMax(0, successes - 1)

removeHard(successes) == MathMax(0, successes - 2)

\* the filter callback as it would be without `removed < count`
RECURSIVE filterBadFrom_noLimit(_, _, _, _)
filterBadFrom_noLimit(pool, count, k, removed) ==
  IF k > Len(pool) THEN << >>
  ELSE IF pool[k].type = "bad"
       THEN filterBadFrom_noLimit(pool, count, k + 1, removed + 1)
       ELSE << pool[k] >> \o filterBadFrom_noLimit(pool, count, k + 1, removed)

\* pool.filter with the closure counter `removed`, scanning left to right
RECURSIVE filterBadFrom(_, _, _, _)
filterBadFrom(pool, count, k, removed) ==
  IF k > Len(pool) THEN << >>
  ELSE IF pool[k].type = "bad" /\ removed < count
       THEN filterBadFrom(pool, count, k + 1, removed + 1)
       ELSE << pool[k] >> \o filterBadFrom(pool, count, k + 1, removed)

filterBad(pool, count) == filterBadFrom(pool, count, 1, 0)

\* the orders .sort(() => Math.random() - 0.5) may leave n elements in:
\* position k of the result holds element Shuffles(n)[..][k] of the input
Rotation(n, r) == [k \in 1..n |-> ((k - 1 + r) % n) + 1]

Shuffles(n) == { Rotation(n, r) : r \in 0..MaxShuffle }

\* App.tsx 197-201: the three pools spread into one array, before map and
\* sort, for every value the successes field holds (App.tsx 392 keeps it
\* within 0..3)
pools ==
  [successes \in 0..3 |->
     basic \o filterBad(advanced, removeAdvanced(successes))
           \o filterBad(hard, removeHard(successes))]

\* App.tsx 197: const pool, in a call generateTokens(successes)
pooled(successes) == pools[successes]

\* id `token-${Date.now()}-${i}`: the clock reading and the index before the sort
generateTokens(successes, stamp, perm) ==
  LET pool == pooled(successes)
      mapped == [i \in 1..Len(pool) |->
                   [id |-> <<stamp, i - 1>>, type |-> pool[i].type,
                    tier |-> pool[i].tier, revealed |-> FALSE]]
  IN [k \in 1..Len(mapped) |-> mapped[perm[k]]]

\* ---- state (App.tsx 256-266) ----
InitialGameState ==
  [round |-> 0, successes |-> 0, tokens |-> << >>,
   history |-> <<null, null, null>>, phase |-> "input", peek |-> FALSE]

\* ---- derived render flags (App.tsx 347-350) ----
isInput == gameState.phase = "input"
isEnd == gameState.phase = "end"
isSummary == gameState.phase = "summary"
isPlaying == gameState.phase = "playing"

\* ---- handlers: the updater each one passes to setGameState ----
\* App.tsx 286
handleStartRound(prev, stamp, perm) ==
  [prev EXCEPT !.phase = "playing",
               !.tokens = generateTokens(prev.successes, stamp, perm)]

\* handleTokenClick as it would be if resolving a round turned every token over
handleTokenClick_revealsAll(prev, id) ==
  LET found == {k \in 1..Len(prev.tokens) : prev.tokens[k].id = id}
  IN IF found = {} THEN prev
     ELSE LET clickedToken == prev.tokens[CHOOSE k \in found : \A j \in found : k <= j]
              newTokens == [k \in 1..Len(prev.tokens) |->
                              IF prev.tokens[k].id = id
                              THEN [prev.tokens[k] EXCEPT !.revealed = TRUE]
                              ELSE prev.tokens[k]]
              allTokens == [k \in 1..Len(prev.tokens) |->
                              [prev.tokens[k] EXCEPT !.revealed = TRUE]]
          IN IF clickedToken.revealed THEN prev
             ELSE IF clickedToken.type = "retry"
                  THEN [prev EXCEPT !.tokens = newTokens]
                  ELSE [prev EXCEPT !.tokens = allTokens,
                                    !.history[prev.round + 1] = clickedToken.type,
                                    !.phase = "summary"]

\* handleTokenClick as it would be without the early return for retry tokens
handleTokenClick_retryResolves(prev, id) ==
  LET found == {k \in 1..Len(prev.tokens) : prev.tokens[k].id = id}
  IN IF found = {} THEN prev
     ELSE LET clickedToken == prev.tokens[CHOOSE k \in found : \A j \in found : k <= j]
              newTokens == [k \in 1..Len(prev.tokens) |->
                              IF prev.tokens[k].id = id
                              THEN [prev.tokens[k] EXCEPT !.revealed = TRUE]
                              ELSE prev.tokens[k]]
          IN IF clickedToken.revealed THEN prev
             ELSE [prev EXCEPT !.tokens = newTokens,
                               !.history[prev.round + 1] = clickedToken.type,
                               !.phase = "summary"]

\* handleTokenClick as it would be if it only looked the id up, without
\* returning prev for a token that is already revealed
handleTokenClick_noRevealedCheck(prev, id) ==
  LET found == {k \in 1..Len(prev.tokens) : prev.tokens[k].id = id}
  IN IF found = {} THEN prev
     ELSE LET clickedToken == prev.tokens[CHOOSE k \in found : \A j \in found : k <= j]
              newTokens == [k \in 1..Len(prev.tokens) |->
                              IF prev.tokens[k].id = id
                              THEN [prev.tokens[k] EXCEPT !.revealed = TRUE]
                              ELSE prev.tokens[k]]
          IN IF clickedToken.type = "retry"
             THEN [prev EXCEPT !.tokens = newTokens]
             ELSE [prev EXCEPT !.tokens = newTokens,
                               !.history[prev.round + 1] = clickedToken.type,
                               !.phase = "summary"]

\* handleTokenClick as it would be if newHistory started from an empty
\* history instead of a copy of prev.history
handleTokenClick_freshHistory(prev, id) ==
  LET found == {k \in 1..Len(prev.tokens) : prev.tokens[k].id = id}
  IN IF found = {} THEN prev
     ELSE LET clickedToken == prev.tokens[CHOOSE k \in found : \A j \in found : k <= j]
              newTokens == [k \in 1..Len(prev.tokens) |->
                              IF prev.tokens[k].id = id
                              THEN [prev.tokens[k] EXCEPT !.revealed = TRUE]
                              ELSE prev.tokens[k]]
              newHistory == [<<null, null, null>> EXCEPT ![prev.round + 1] = clickedToken.type]
          IN IF clickedToken.revealed THEN prev
             ELSE IF clickedToken.type = "retry"
                  THEN [prev EXCEPT !.tokens = newTokens]
                  ELSE [prev EXCEPT !.tokens = newTokens,
                                    !.history = newHistory,
                                    !.phase = "summary"]

\* App.tsx 288-298
handleTokenClick(prev, id) ==
  LET found == {k \in 1..Len(prev.tokens) : prev.tokens[k].id = id}
  IN IF found = {} THEN prev
     ELSE LET clickedToken == prev.tokens[CHOOSE k \in found : \A j \in found : k <= j]
              newTokens == [k \in 1..Len(prev.tokens) |->
                              IF prev.tokens[k].id = id
                              THEN [prev.tokens[k] EXCEPT !.revealed = TRUE]
                              ELSE prev.tokens[k]]
          IN IF clickedToken.revealed THEN prev
             ELSE IF clickedToken.type = "retry"
                  THEN [prev EXCEPT !.tokens = newTokens]
                  ELSE [prev EXCEPT !.tokens = newTokens,
                                    !.history[prev.round + 1] = clickedToken.type,
                                    !.phase = "summary"]

\* handleNextPhase as it would be without `successes: 0`
handleNextPhase_keepsSuccesses(prev) ==
  LET isGameOver == prev.round >= 2
  IN [prev EXCEPT !.phase = IF isGameOver THEN "end" ELSE "input",
                  !.round = IF isGameOver THEN prev.round ELSE prev.round + 1,
                  !.peek = FALSE]

\* handleNextPhase as it would be with the game over one round early
handleNextPhase_endsEarly(prev) ==
  LET isGameOver == prev.round >= 1
  IN [prev EXCEPT !.phase = IF isGameOver THEN "end" ELSE "input",
                  !.round = IF isGameOver THEN prev.round ELSE prev.round + 1,
                  !.successes = 0,
                  !.peek = FALSE]

\* handleNextPhase as it would be if it left the phase as it is
handleNextPhase_keepsPhase(prev) ==
  LET isGameOver == prev.round >= 2
  IN [prev EXCEPT !.round = IF isGameOver THEN prev.round ELSE prev.round + 1,
                  !.successes = 0,
                  !.peek = FALSE]

\* App.tsx 300-305
handleNextPhase(prev) ==
  LET isGameOver == prev.round >= 2
  IN [prev EXCEPT !.phase = IF isGameOver THEN "end" ELSE "input",
                  !.round = IF isGameOver THEN prev.round ELSE prev.round + 1,
                  !.successes = 0,
                  !.peek = FALSE]

\* handleResetGame as it would be if it spread the previous state and left
\* history out of the reset
handleResetGame_keepsHistory ==
  [round |-> 0, successes |-> 0, tokens |-> << >>,
   history |-> gameState.history, phase |-> "input", peek |-> FALSE]

\* handleResetGame as it would be if it left tokens out of the reset
handleResetGame_keepsTokens ==
  [round |-> 0, successes |-> 0, tokens |-> gameState.tokens,
   history |-> <<null, null, null>>, phase |-> "input", peek |-> FALSE]

\* App.tsx 307
handleResetGame ==
  [round |-> 0, successes |-> 0, tokens |-> << >>,
   history |-> <<null, null, null>>, phase |-> "input", peek |-> FALSE]

\* App.tsx 392: parseInt(e.target.value) || 0, clamped to 0..3
successesOnChange(prev, value) ==
  LET val == IF value.nan \/ value.n = 0 THEN 0 ELSE value.n
  IN [prev EXCEPT !.successes = MathMin(MathMax(val, 0), 3)]

\* the end panel as it would be with `> 2` for `>= 2`
endPanelText_strict(history) ==
  LET goods == SelectSeq(history, LAMBDA h : h = "good")
  IN IF Len(goods) > 2 THEN "victory" ELSE "defeat"

\* App.tsx 397: the headline of the end panel
endPanelText(history) ==
  LET goods == SelectSeq(history, LAMBDA h : h = "good")
  IN IF Len(goods) >= 2 THEN "victory" ELSE "defeat"

\* ---- the dice thrower (App.tsx 54-60, 264-266, 309-334) ----
\* totalSuccesses: number | null is << >> for null and <<n>> for the number n
InitialDiceState ==
  [stats |-> 0, skills |-> 0, bonuses |-> 0, lastRolls |-> << >>, totalSuccesses |-> << >>]

\* App.tsx 230: the circles [1, 2, 3, 4, 5] of a StarRating, up to MaxStar
Stars == 1..MathMin(MaxStar, 5)

\* App.tsx 233: clicking the circle that is the current value clears the axis
starOnClick(value, star) == IF star = value THEN 0 ELSE star

\* the stats onChange as it would be if a new value dropped the last result
statsOnChange_clearsResult(prev, val) ==
  [prev EXCEPT !.stats = val, !.lastRolls = << >>, !.totalSuccesses = << >>]

\* App.tsx 432
statsOnChange(prev, val) == [prev EXCEPT !.stats = val]

\* App.tsx 433
skillsOnChange(prev, val) == [prev EXCEPT !.skills = val]

\* App.tsx 434
bonusesOnChange(prev, val) == [prev EXCEPT !.bonuses = val]

\* App.tsx 318: the values Math.floor(Math.random() * 10) takes in the model
\* (a face below 8, a face from 8 to 9, and the 10), out of 0..9
RandomDigits == {6, 7, 9}

\* what Math.random() may deliver during one roll: at most MaxRolls draws
Streams == UNION { [1..n -> RandomDigits] : n \in 0..MaxRolls }

\* the for loop as it would be if every success also counted as a ten
RECURSIVE rollLoop_successExplodes(_, _, _, _)
rollLoop_successExplodes(i, count, newTens, run) ==
  IF ~(i < count) THEN [run |-> run, newTens |-> newTens]
  ELSE IF run.stream = << >> THEN [run |-> [run EXCEPT !.ok = FALSE], newTens |-> 0]
  ELSE LET result == Head(run.stream) + 1
           pushed == [run EXCEPT !.rolls = Append(@, result),
                                 !.stream = Tail(@),
                                 !.currentSuccesses = IF result >= 8 THEN @ + 1 ELSE @]
       IN rollLoop_successExplodes(i + 1, count,
                                   IF result >= 8 THEN newTens + 1 ELSE newTens, pushed)

\* the for loop as it would be with `result > 8` for a success
RECURSIVE rollLoop_strictSuccess(_, _, _, _)
rollLoop_strictSuccess(i, count, newTens, run) ==
  IF ~(i < count) THEN [run |-> run, newTens |-> newTens]
  ELSE IF run.stream = << >> THEN [run |-> [run EXCEPT !.ok = FALSE], newTens |-> 0]
  ELSE LET result == Head(run.stream) + 1
           pushed == [run EXCEPT !.rolls = Append(@, result),
                                 !.stream = Tail(@),
                                 !.currentSuccesses = IF result > 8 THEN @ + 1 ELSE @]
       IN rollLoop_strictSuccess(i + 1, count,
                                 IF result = 10 THEN newTens + 1 ELSE newTens, pushed)

\* App.tsx 316-322: the for loop of performRolls.  run holds the closure
\* variables rolls and currentSuccesses and the unread part of the random
\* stream; ok turns FALSE when the loop wants a draw the stream does not have
RECURSIVE rollLoop(_, _, _, _)
rollLoop(i, count, newTens, run) ==
  IF ~(i < count) THEN [run |-> run, newTens |-> newTens]
  ELSE IF run.stream = << >> THEN [run |-> [run EXCEPT !.ok = FALSE], newTens |-> 0]
  ELSE LET result == Head(run.stream) + 1
           pushed == [run EXCEPT !.rolls = Append(@, result),
                                 !.stream = Tail(@),
                                 !.currentSuccesses = IF result >= 8 THEN @ + 1 ELSE @]
       IN rollLoop(i + 1, count, IF result = 10 THEN newTens + 1 ELSE newTens, pushed)

\* App.tsx 315-324
RECURSIVE performRolls(_, _)
performRolls(count, run) ==
  LET after == rollLoop(0, count, 0, run)
  IN IF after.newTens > 0 THEN performRolls(after.newTens, after.run) ELSE after.run

\* App.tsx 312-313, 325: the closure variables after performRolls(n) has
\* returned, for every stream that such a roll reads to its last draw,
\* neither stopping before it nor asking for more
Runs ==
  [n \in 0..MaxRolls |->
     LET all == { performRolls(n, [rolls |-> << >>, currentSuccesses |-> 0,
                                   stream |-> stream, ok |-> TRUE]) : stream \in Streams }
     IN { [rolls |-> done.rolls, currentSuccesses |-> done.currentSuccesses] :
            done \in { d \in all : d.ok /\ d.stream = << >> } }]

\* rollDice as it would be without the early return for an empty pool
rollDice_noZeroCheck(current, done) ==
  [current EXCEPT !.lastRolls = done.rolls,
                  !.totalSuccesses = <<done.currentSuccesses>>]

\* App.tsx 309-327; done is what performRolls(totalDice) leaves in rolls and
\* currentSuccesses
rollDice(current, done) ==
  LET totalDice == current.stats + current.skills + current.bonuses
  IN IF totalDice = 0
     THEN current
     ELSE [current EXCEPT !.lastRolls = done.rolls,
                          !.totalSuccesses = <<done.currentSuccesses>>]

\* App.tsx 93-95: the outcome labels of translations[lang] for the initial lang
txt ==
  [outcomeFail |-> "Failure", outcomeSuccess |-> "Success",
   outcomeExceptional |-> "Exceptional Success"]

\* getDiceOutcome as it would be with `> 5` for the exceptional success
getDiceOutcome_strict(successes) ==
  IF successes = << >> THEN ""
  ELSE IF successes[1] = 0 THEN txt.outcomeFail
  ELSE IF successes[1] > 5 THEN txt.outcomeExceptional
  ELSE txt.outcomeSuccess

\* App.tsx 329-334
getDiceOutcome(successes) ==
  IF successes = << >> THEN ""
  ELSE IF successes[1] = 0 THEN txt.outcomeFail
  ELSE IF successes[1] >= 5 THEN txt.outcomeExceptional
  ELSE txt.outcomeSuccess

\* App.tsx 425: the whole dice panel
diceShown == tab = "dice"

\* App.tsx 452
rollButtonDisabled ==
  (diceState.stats + diceState.skills + diceState.bonuses) = 0

\* ---- where each control is rendered ----
\* App.tsx 376: the whole minigame panel
minigameShown == tab = "minigame"

\* the Reveal Board button as it would be if it were rendered in every phase
startButtonRendered_always == TRUE

\* App.tsx 388-393: the number field and the Reveal Board button
startButtonRendered == isInput

\* App.tsx 395-399: the New Game button
newGameButtonRendered == ~isInput /\ isEnd

\* App.tsx 400-402: one Paper per token
tokensRendered == ~isInput /\ ~isEnd

\* App.tsx 416: the Continue button
continueButtonRendered == tokensRendered /\ isSummary

\* the token onClick as it would be without the !isSummary guard
tokenOnClick_ignoresSummary(prev, token) ==
  IF ~token.revealed
  THEN handleTokenClick(prev, token.id)
  ELSE prev

\* App.tsx 406: onClick={() => !isSummary && !token.revealed && handleTokenClick(token.id)}
tokenOnClick(prev, token) ==
  IF ~(prev.phase = "summary") /\ ~token.revealed
  THEN handleTokenClick(prev, token.id)
  ELSE prev

\* op is not program state: it records the last engine operation the user
\* invoked (and the token id it was given), "other" for any other event
Init ==
  /\ gameState = InitialGameState
  /\ diceState = InitialDiceState
  /\ tab = "minigame"
  /\ op = [name |-> "none", arg |-> << >>]

\* ---- actions: one per user intent ----
\* The engine operations are attempted on the minigame panel; the control of
\* an operation exists only in its phase, and without it nothing happens.
\* startRound: press Reveal Board
StartRound ==
  /\ minigameShown
  /\ op' = [name |-> "startRound", arg |-> << >>]
  /\ IF startButtonRendered
     THEN \E perm \in Shuffles(Len(pooled(gameState.successes))), stamp \in 0..MaxNow :
             gameState' = handleStartRound(gameState, stamp, perm)
     ELSE gameState' = gameState
  /\ UNCHANGED <<tab, diceState>>

\* revealToken: click the Paper of the k-th token of gameState.tokens
RevealToken(k) ==
  /\ minigameShown
  /\ tokensRendered
  /\ k \in 1..Len(gameState.tokens)
  /\ op' = [name |-> "revealToken", arg |-> gameState.tokens[k].id]
  /\ gameState' = tokenOnClick(gameState, gameState.tokens[k])
  /\ UNCHANGED <<tab, diceState>>

\* advancePhase: press Continue
AdvancePhase ==
  /\ minigameShown
  /\ op' = [name |-> "advancePhase", arg |-> << >>]
  /\ gameState' = IF continueButtonRendered
                  THEN handleNextPhase(gameState)
                  ELSE gameState
  /\ UNCHANGED <<tab, diceState>>

\* resetBoard: press New Game
ResetBoard ==
  /\ minigameShown
  /\ newGameButtonRendered
  /\ op' = [name |-> "resetBoard", arg |-> << >>]
  /\ gameState' = handleResetGame
  /\ UNCHANGED <<tab, diceState>>

\* type into the successes field
SetSuccesses(value) ==
  /\ minigameShown
  /\ startButtonRendered
  /\ op' = [name |-> "other", arg |-> << >>]
  /\ gameState' = successesOnChange(gameState, value)
  /\ UNCHANGED <<tab, diceState>>

\* App.tsx 271-273 (the key-repeat events are the ones the handler drops)
handleKeyDown ==
  /\ tab = "minigame"
  /\ op' = [name |-> "other", arg |-> << >>]
  /\ gameState' = [gameState EXCEPT !.peek = TRUE]
  /\ UNCHANGED <<tab, diceState>>

\* App.tsx 274-276
handleKeyUp ==
  /\ tab = "minigame"
  /\ op' = [name |-> "other", arg |-> << >>]
  /\ gameState' = [gameState EXCEPT !.peek = FALSE]
  /\ UNCHANGED <<tab, diceState>>

\* App.tsx 369: Tabs onChange
setTab(v) ==
  /\ tab' = v
  /\ op' = [name |-> "other", arg |-> << >>]
  /\ UNCHANGED <<gameState, diceState>>


\* click a circle of the Stats, Skills or Bonuses rating
setStats(star) ==
  /\ diceShown
  /\ op' = [name |-> "other", arg |-> << >>]
  /\ diceState' = statsOnChange(diceState, starOnClick(diceState.stats, star))
  /\ UNCHANGED <<gameState, tab>>

setSkills(star) ==
  /\ diceShown
  /\ op' = [name |-> "other", arg |-> << >>]
  /\ diceState' = skillsOnChange(diceState, starOnClick(diceState.skills, star))
  /\ UNCHANGED <<gameState, tab>>

setBonuses(star) ==
  /\ diceShown
  /\ op' = [name |-> "other", arg |-> << >>]
  /\ diceState' = bonusesOnChange(diceState, starOnClick(diceState.bonuses, star))
  /\ UNCHANGED <<gameState, tab>>

\* rollDicePool: press ROLL DICE; a disabled button does nothing
RollDice ==
  /\ diceShown
  /\ op' = [name |-> "rollDice", arg |-> << >>]
  /\ IF rollButtonDisabled
     THEN diceState' = diceState
     ELSE LET totalDice == diceState.stats + diceState.skills + diceState.bonuses
          IN /\ totalDice <= MaxRolls
             /\ \E done \in Runs[totalDice] :
                   diceState' = rollDice(diceState, done)
  /\ UNCHANGED <<gameState, tab>>

Next ==
  \/ StartRound
  \/ \E k \in 1..10 : RevealToken(k)
  \/ AdvancePhase
  \/ ResetBoard
  \/ \E value \in FieldValues : SetSuccesses(value)
  \/ handleKeyDown
  \/ handleKeyUp
  \/ \E v \in TabType : setTab(v)

Spec == Init /\ [][Next]_vars

\* a game played to its end: the engine operations, the successes field and
\* the tabs, without New Game (and without the peek key, which no engine
\* operation reads).  The user keeps playing: they come back to the minigame
\* panel, and an engine operation whose control comes up again and again is
\* eventually carried out.
backToMinigame == setTab("minigame") /\ ~minigameShown

startRoundStep == StartRound /\ startButtonRendered

revealTokenStep ==
  \E k \in 1..10 :
     /\ RevealToken(k)
     /\ isPlaying
     /\ ~gameState.tokens[k].revealed

advancePhaseStep == AdvancePhase /\ continueButtonRendered

NextGame ==
  \/ StartRound
  \/ \E k \in 1..10 : RevealToken(k)
  \/ AdvancePhase
  \/ \E value \in FieldValues : SetSuccesses(value)
  \/ \E v \in TabType : setTab(v)

SpecGame ==
  /\ Init
  /\ [][NextGame]_vars
  /\ WF_vars(backToMinigame)
  /\ SF_vars(startRoundStep)
  /\ SF_vars(revealTokenStep)
  /\ SF_vars(advancePhaseStep)

\* the dice panel on its own: the board stays as it is
NextDice ==
  \/ \E star \in Stars : setStats(star)
  \/ \E star \in Stars : setSkills(star)
  \/ \E star \in Stars : setBonuses(star)
  \/ RollDice
  \/ \E v \in TabType : setTab(v)

SpecDice == Init /\ [][NextDice]_vars

\* ---- vocabulary of the properties ----
\* every id generateTokens can produce within the bounds
AllIds == (0..MaxNow) \X (0..9)

\* positions of gameState.tokens holding the token with this id
PositionsOf(id) == {k \in 1..Len(gameState.tokens) : gameState.tokens[k].id = id}

RevealedTokens == {k \in 1..Len(gameState.tokens) : gameState.tokens[k].revealed}

GoodCount(history) == Cardinality({i \in 1..3 : history[i] = "good"})

\* C1: a revealToken outside phase playing, in particular in summary on a
\* still-unrevealed token of the current pool, leaves the whole board state
\* unchanged.
C1_RevealOutsidePlayingNoEffect ==
  [][ (op'.name = "revealToken" /\ gameState.phase # "playing")
        => gameState' = gameState ]_vars

\* C1 witness: revealToken was last invoked on a token that is still
\* unrevealed while the phase is summary.
C1_Witness ==
  /\ op.name = "revealToken"
  /\ gameState.phase = "summary"
  /\ \E k \in PositionsOf(op.arg) : ~gameState.tokens[k].revealed

\* C2: tokens is empty in every reachable state whose phase is input or end.
C2_TokensEmptyInInputAndEnd ==
  gameState.phase \in {"input", "end"} => gameState.tokens = << >>

\* C3: in phase playing, revealing an unrevealed good or bad token marks that
\* token revealed, writes its outcome into history[round] and sets phase to
\* summary; round, successes, the other history slots and every other token
\* stay as they were.
C3_ResolvingRevealFrame ==
  [][ \A k \in 1..Len(gameState.tokens) :
        ( /\ op' = [name |-> "revealToken", arg |-> gameState.tokens[k].id]
          /\ gameState.phase = "playing"
          /\ ~gameState.tokens[k].revealed
          /\ gameState.tokens[k].type \in {"good", "bad"} )
        => /\ gameState'.tokens[k].revealed
           /\ gameState'.history[gameState.round + 1] = gameState.tokens[k].type
           /\ gameState'.phase = "summary"
           /\ gameState'.round = gameState.round
           /\ gameState'.successes = gameState.successes
           /\ \A i \in 1..3 : i # gameState.round + 1
                 => gameState'.history[i] = gameState.history[i]
           /\ Len(gameState'.tokens) = Len(gameState.tokens)
           /\ \A j \in 1..Len(gameState.tokens) :
                 /\ j # k => gameState'.tokens[j] = gameState.tokens[j]
                 /\ gameState'.tokens[j].id = gameState.tokens[j].id
                 /\ gameState'.tokens[j].type = gameState.tokens[j].type
                 /\ gameState'.tokens[j].tier = gameState.tokens[j].tier ]_vars

\* C3 witness: the last revealToken turned over a good or bad token, the round
\* is resolved with its outcome, and another token of the pool is still hidden.
C3_Witness ==
  /\ op.name = "revealToken"
  /\ gameState.phase = "summary"
  /\ \E k \in PositionsOf(op.arg) :
        /\ gameState.tokens[k].revealed
        /\ gameState.tokens[k].type \in {"good", "bad"}
        /\ gameState.history[gameState.round + 1] = gameState.tokens[k].type
  /\ \E j \in 1..Len(gameState.tokens) : ~gameState.tokens[j].revealed

\* C4: in phase playing, revealing an unrevealed retry token marks only that
\* token revealed: phase stays playing, no history slot is written
\* (history[round] stays null) and a token is left to reveal.
C4_RetryRevealKeepsPlaying ==
  [][ \A k \in 1..Len(gameState.tokens) :
        ( /\ op' = [name |-> "revealToken", arg |-> gameState.tokens[k].id]
          /\ gameState.phase = "playing"
          /\ ~gameState.tokens[k].revealed
          /\ gameState.tokens[k].type = "retry" )
        => /\ gameState' = [gameState EXCEPT !.tokens[k].revealed = TRUE]
           /\ gameState'.phase = "playing"
           /\ gameState'.history = gameState.history
           /\ gameState'.history[gameState.round + 1] = null
           /\ \E j \in 1..Len(gameState'.tokens) : ~gameState'.tokens[j].revealed ]_vars

\* C4 witness: the last revealToken turned over a retry token and the round is
\* still being played with its history slot empty.
C4_Witness ==
  /\ op.name = "revealToken"
  /\ gameState.phase = "playing"
  /\ gameState.history[gameState.round + 1] = null
  /\ \E k \in PositionsOf(op.arg) :
        gameState.tokens[k].revealed /\ gameState.tokens[k].type = "retry"

\* C5: advancePhase in phase summary: with round = 2 the phase becomes end and
\* round stays 2; otherwise round grows by exactly 1, successes is reset to 0
\* and the phase becomes input.  history is unchanged in both cases.
C5_AdvancePhase ==
  [][ (op'.name = "advancePhase" /\ gameState.phase = "summary")
        => /\ gameState'.history = gameState.history
           /\ IF gameState.round = 2
              THEN gameState'.phase = "end" /\ gameState'.round = 2
              ELSE /\ gameState'.round = gameState.round + 1
                   /\ gameState'.successes = 0
                   /\ gameState'.phase = "input" ]_vars

\* C5 witness: advancePhase has just opened the input of a later round whose
\* pool had been generated with a non-zero successes value.
C5_Witness ==
  /\ op.name = "advancePhase"
  /\ gameState.phase = "input"
  /\ gameState.round = 1
  /\ gameState.successes = 0
  /\ Len(gameState.tokens) = 8

\* C6: for every slot i in 0..2, history[i] is non-null exactly when i < round,
\* or i = round and the phase is summary or end; a non-null slot holds good or
\* bad, never retry.
C6_HistoryFilledUpToRound ==
  \A i \in 0..2 :
    /\ (gameState.history[i + 1] # null)
         <=> ( \/ i < gameState.round
               \/ i = gameState.round /\ gameState.phase \in {"summary", "end"} )
    /\ gameState.history[i + 1] \in {"good", "bad", null}

\* C6 witness: the second round is resolved after a retry was turned over, the
\* third slot is still empty.
C6_Witness ==
  /\ gameState.round = 1
  /\ gameState.phase = "summary"
  /\ gameState.history[1] # null
  /\ gameState.history[2] # null
  /\ gameState.history[3] = null
  /\ \E k \in RevealedTokens : gameState.tokens[k].type = "retry"

\* C7: startRound invoked in phase playing, summary or end leaves the board
\* state unchanged: no new pool, the phase does not become playing.
C7_StartRoundOnlyInInput ==
  [][ (op'.name = "startRound" /\ gameState.phase # "input")
        => gameState' = gameState ]_vars

\* C7 witness: startRound was the last operation invoked and the phase is
\* summary, which no startRound leads to.
C7_Witness ==
  /\ op.name = "startRound"
  /\ gameState.phase = "summary"
  /\ RevealedTokens # {}

\* C8: handleTokenClick returns the state unchanged for an id that no token
\* has and for a token that is already revealed, so that applying it twice
\* with one id gives what applying it once gives.
C8_RevealIdempotent ==
  \A id \in AllIds :
    LET once == handleTokenClick(gameState, id)
        twice == handleTokenClick(once, id)
    IN /\ twice = once
       /\ ( \/ PositionsOf(id) = {}
            \/ \E k \in PositionsOf(id) : gameState.tokens[k].revealed )
          => once = gameState

\* C8 witness: a revealed token was just clicked, a hidden one is left, and
\* some id belongs to no token of the pool.
C8_Witness ==
  /\ op.name = "revealToken"
  /\ \E k \in PositionsOf(op.arg) : gameState.tokens[k].revealed
  /\ \E j \in 1..Len(gameState.tokens) : ~gameState.tokens[j].revealed
  /\ \E id \in AllIds : PositionsOf(id) = {}
  /\ gameState.phase = "playing"

\* C9: phase end is reached only with round = 2 and all three history slots
\* non-null, also when the first two rounds were both good or both bad.
C9_EndOnlyAfterThreeRounds ==
  gameState.phase = "end"
    => /\ gameState.round = 2
       /\ \A i \in 1..3 : gameState.history[i] # null

\* C9 witness: the game has ended although its first two rounds already
\* decided it.
C9_Witness ==
  /\ gameState.phase = "end"
  /\ gameState.history[1] = gameState.history[2]
  /\ gameState.history[3] # gameState.history[1]

\* C10: in phase end the panel shows victory exactly when at least 2 of the 3
\* history slots are good, and defeat otherwise.
C10_VictoryIffTwoGood ==
  gameState.phase = "end"
    => /\ endPanelText(gameState.history) = "victory"
            <=> GoodCount(gameState.history) >= 2
       /\ endPanelText(gameState.history) = "defeat"
            <=> GoodCount(gameState.history) < 2

\* C10 witness: the game ended by advancePhase with exactly two good rounds and
\* the panel shows victory.
C10_Witness ==
  /\ gameState.phase = "end"
  /\ op.name = "advancePhase"
  /\ gameState.history[1] = "good"
  /\ gameState.history[2] = "good"
  /\ gameState.history[3] = "bad"
  /\ endPanelText(gameState.history) = "victory"

CountOf(tokens, type, tier) ==
  Cardinality({k \in 1..Len(tokens) : tokens[k].type = type /\ tokens[k].tier = tier})

\* C11: resetBoard yields exactly the initial snapshot (round 0, successes 0,
\* tokens empty, history all null, phase input), whatever the state before.
C11_ResetYieldsInitialSnapshot ==
  [][ op'.name = "resetBoard" => gameState' = InitialGameState ]_vars

\* C11 witness: resetBoard has just run and the board is the initial snapshot.
C11_Witness ==
  /\ op.name = "resetBoard"
  /\ gameState.round = 0
  /\ gameState.successes = 0
  /\ gameState.tokens = << >>
  /\ gameState.history = <<null, null, null>>
  /\ gameState.phase = "input"

\* C12: a history slot that is non-null stays non-null (and keeps its value)
\* in every step that is not a reset.
C12_HistoryMonotone ==
  [][ op'.name # "resetBoard"
        => \A i \in 1..3 : gameState.history[i] # null
                               => gameState'.history[i] = gameState.history[i] ]_vars

\* C12 witness: the third round was resolved and the slots of the first two
\* rounds are still filled.
C12_Witness ==
  /\ op.name = "revealToken"
  /\ gameState.round = 2
  /\ gameState.phase = "summary"
  /\ \A i \in 1..3 : gameState.history[i] # null

\* C13 as stated: the pool has 10, 9, 8, 8 tokens for successes 0, 1, 2, 3,
\* so between 8 and 10.
C13_PoolSizes_10_9_8_8 ==
  gameState.phase \in {"playing", "summary"}
    => /\ Len(gameState.tokens) = <<10, 9, 8, 8>>[gameState.successes + 1]
       /\ Len(gameState.tokens) \in 8..10

\* C13 amended: the pool has 10, 9, 8, 7 tokens for successes 0, 1, 2, 3, so
\* between 7 and 10; successes = 3 gives a pool of 7.
C13_PoolSizes_10_9_8_7 ==
  /\ \A p \in 0..3 : Len(pooled(p)) = <<10, 9, 8, 7>>[p + 1]
  /\ gameState.phase \in {"playing", "summary"}
       => /\ Len(gameState.tokens) = <<10, 9, 8, 7>>[gameState.successes + 1]
          /\ Len(gameState.tokens) \in 7..10

\* C13 witness: a round was started with successes = 3 and its pool has 7 tokens.
C13_Witness ==
  /\ op.name = "startRound"
  /\ gameState.phase = "playing"
  /\ gameState.successes = 3
  /\ Len(gameState.tokens) = 7

\* the multiset of (outcome, tier) pairs of the pool of the current round
C14_Composition ==
  gameState.phase \in {"playing", "summary"}
    => LET p == gameState.successes
           tokens == gameState.tokens
           advBad == IF p >= 2 THEN 0 ELSE 2 - p
           hardBad == IF p >= 3 THEN 0 ELSE 1
       IN /\ CountOf(tokens, "good", "basic") = 1
          /\ CountOf(tokens, "bad", "basic") = 1
          /\ CountOf(tokens, "retry", "basic") = 2
          /\ CountOf(tokens, "good", "advanced") = 2
          /\ CountOf(tokens, "bad", "advanced") = advBad
          /\ CountOf(tokens, "retry", "advanced") = 0
          /\ CountOf(tokens, "good", "hard") = 1
          /\ CountOf(tokens, "bad", "hard") = hardBad
          /\ CountOf(tokens, "retry", "hard") = 0
          /\ Len(tokens) = 7 + advBad + hardBad
          /\ p = 3 => \A k \in 1..Len(tokens) :
                         tokens[k].type = "bad" => tokens[k].tier = "basic"

\* C14: for successes p the pool holds the 4 basic tokens (1 good, 1 bad,
\* 2 retry), 2 advanced good and 2 - min(p,2) advanced bad, 1 hard good and
\* 1 - max(0,p-2) hard bad, and nothing else; every token of a fresh pool is
\* unrevealed; for p = 3 the basic bad is the only bad token.
C14_PoolComposition ==
  /\ []C14_Composition
  /\ [][ (op'.name = "startRound" /\ gameState.phase = "input")
            => \A k \in 1..Len(gameState'.tokens) : ~gameState'.tokens[k].revealed ]_vars

\* C14 witness: a pool generated with successes = 3 in which the basic bad is
\* the only bad token.
C14_Witness ==
  /\ op.name = "startRound"
  /\ gameState.phase = "playing"
  /\ gameState.successes = 3
  /\ CountOf(gameState.tokens, "bad", "basic") = 1
  /\ CountOf(gameState.tokens, "bad", "advanced") = 0
  /\ CountOf(gameState.tokens, "bad", "hard") = 0

\* ---- vocabulary of the dice properties ----
TotalDice(ds) == ds.stats + ds.skills + ds.bonuses

TensIn(seq) == Cardinality({k \in 1..Len(seq) : seq[k] = 10})

SuccessesIn(seq) == Cardinality({k \in 1..Len(seq) : seq[k] >= 8})

ResultPresent == diceState.totalSuccesses # << >>

\* rolls is a block of n dice, then a block of as many dice as that block
\* has 10s, and so on, ending after a block without a 10
RECURSIVE DepthBlocks(_, _)
DepthBlocks(rolls, n) ==
  IF n = 0 THEN rolls = << >>
  ELSE /\ Len(rolls) >= n
       /\ DepthBlocks(SubSeq(rolls, n + 1, Len(rolls)), TensIn(SubSeq(rolls, 1, n)))

AxesChange ==
  \/ diceState'.stats # diceState.stats
  \/ diceState'.skills # diceState.skills
  \/ diceState'.bonuses # diceState.bonuses

ResultChanges ==
  \/ diceState'.lastRolls # diceState.lastRolls
  \/ diceState'.totalSuccesses # diceState.totalSuccesses

\* C15 as stated: a result that is present was produced by a roll with the
\* current stats, skills and bonuses, and after any change of an axis value
\* the result is absent.
C15_ResultIsOfCurrentConfiguration ==
  /\ [](ResultPresent => DepthBlocks(diceState.lastRolls, TotalDice(diceState)))
  /\ [][ AxesChange => (diceState'.totalSuccesses = << >> /\ diceState'.lastRolls = << >>) ]_vars

\* C15 amended: no result is present until the first roll; a result appears or
\* changes only by a roll with a positive pool, which rolls the axis values
\* of that moment; a change of an axis value leaves the result as it is.
C15_ResultOnlyByRoll ==
  /\ ~ResultPresent /\ diceState.lastRolls = << >>
  /\ [](~ResultPresent => diceState.lastRolls = << >>)
  /\ [][ ResultChanges
           => /\ op'.name = "rollDice"
              /\ ~AxesChange
              /\ TotalDice(diceState) > 0
              /\ diceState'.totalSuccesses # << >>
              /\ DepthBlocks(diceState'.lastRolls, TotalDice(diceState)) ]_vars
  /\ [][ AxesChange => ~ResultChanges ]_vars

\* C15 witness: an axis value was changed after a roll and the result of that
\* roll is still there, although no roll of the current pool gives it.
C15_Witness ==
  /\ op.name = "other"
  /\ ResultPresent
  /\ TotalDice(diceState) > 0
  /\ ~DepthBlocks(diceState.lastRolls, TotalDice(diceState))

\* C17: a completed roll of total > 0 dice is the concatenation of depth
\* blocks: block 0 has total dice, block k+1 has as many dice as block k has
\* 10s, the last block has no 10; so rolls.length >= total and
\* rolls.length - total is the number of 10s in rolls.
C17_RollsAreDepthBlocks ==
  [][ (op'.name = "rollDice" /\ TotalDice(diceState) > 0)
        => /\ DepthBlocks(diceState'.lastRolls, TotalDice(diceState))
           /\ Len(diceState'.lastRolls) >= TotalDice(diceState)
           /\ Len(diceState'.lastRolls) - TotalDice(diceState)
                = TensIn(diceState'.lastRolls) ]_vars

\* C17 witness: a roll of two dice whose first block exploded once and whose
\* second block exploded again.
C17_Witness ==
  /\ op.name = "rollDice"
  /\ TotalDice(diceState) = 2
  /\ Len(diceState.lastRolls) = 4
  /\ TensIn(SubSeq(diceState.lastRolls, 1, 2)) = 1
  /\ diceState.lastRolls[3] = 10
  /\ diceState.lastRolls[4] # 10

\* C18: after a completed roll every value of rolls is in 1..10 and
\* totalSuccesses is the number of entries >= 8, the 10s included, over all
\* depths.
C18_SuccessesCountEightAndUp ==
  ResultPresent
    => /\ \A k \in 1..Len(diceState.lastRolls) : diceState.lastRolls[k] \in 1..10
       /\ diceState.totalSuccesses[1] = SuccessesIn(diceState.lastRolls)

\* C18 witness: a roll that drew a 7, an 8 and a 10 and counts the 10 as a
\* success.
C18_Witness ==
  /\ ResultPresent
  /\ \E i, j, k \in 1..Len(diceState.lastRolls) :
        /\ diceState.lastRolls[i] = 7
        /\ diceState.lastRolls[j] = 8
        /\ diceState.lastRolls[k] = 10
  /\ diceState.totalSuccesses[1] = SuccessesIn(diceState.lastRolls)
  /\ diceState.totalSuccesses[1] >= 2

\* C19: rolling with stats + skills + bonuses = 0 is a no-op: rollDice returns
\* before any die is drawn and the dice state is unchanged.
C19_ZeroPoolRollIsNoOp ==
  /\ [](TotalDice(diceState) = 0
          => \A done \in Runs[0] :
               /\ done.rolls = << >>
               /\ rollDice(diceState, done) = diceState)
  /\ [][ (op'.name = "rollDice" /\ TotalDice(diceState) = 0)
           => diceState' = diceState ]_vars

\* C19 witness: the roll button was pressed with an empty pool after an
\* earlier roll, whose result is still there.
C19_Witness ==
  /\ op.name = "rollDice"
  /\ TotalDice(diceState) = 0
  /\ ResultPresent
  /\ diceState.lastRolls # << >>

\* C20: the outcome shown for a result is Failure exactly when
\* totalSuccesses = 0, Success exactly when it is 1..4, and Exceptional
\* Success exactly when it is >= 5.
C20_OutcomeClassification ==
  ResultPresent
    => LET n == diceState.totalSuccesses[1]
           shown == getDiceOutcome(diceState.totalSuccesses)
       IN /\ shown = "Failure" <=> n = 0
          /\ shown = "Success" <=> (1 <= n /\ n <= 4)
          /\ shown = "Exceptional Success" <=> n >= 5

\* C20 witness: a roll with exactly 5 successes, shown as Exceptional Success.
C20_Witness ==
  /\ op.name = "rollDice"
  /\ diceState.totalSuccesses = <<5>>
  /\ getDiceOutcome(diceState.totalSuccesses) = "Exceptional Success"

\* ---- the reveals of one round ----
RevealedOfType(type) ==
  {k \in RevealedTokens : gameState.tokens[k].type = type}

\* C21: every round resolves within at most 3 reveals: every generated pool
\* holds exactly 2 retry tokens, and in every reachable state at most 3 tokens
\* are revealed, at most 2 of them are retry tokens, and in phase playing every
\* revealed token is a retry token.
C21_AtMostThreeReveals ==
  /\ gameState.tokens # << >>
       => Cardinality({k \in 1..Len(gameState.tokens) :
                         gameState.tokens[k].type = "retry"}) = 2
  /\ Cardinality(RevealedTokens) <= 3
  /\ Cardinality(RevealedOfType("retry")) <= 2
  /\ gameState.phase = "playing" => RevealedTokens = RevealedOfType("retry")

\* C21 witness: a round resolved by its third reveal, after both retry tokens
\* had been turned over.
C21_Witness ==
  /\ op.name = "revealToken"
  /\ gameState.phase = "summary"
  /\ Cardinality(RevealedTokens) = 3
  /\ Cardinality(RevealedOfType("retry")) = 2
  /\ \E k \in PositionsOf(op.arg) :
        gameState.tokens[k].revealed /\ gameState.tokens[k].type \in {"good", "bad"}

\* ---- progress of a game ----
\* the engine operation of the current phase is at hand and changes the board:
\* startRound in input, the reveal of an unrevealed token in playing,
\* advancePhase in summary
OperationAtHand ==
  CASE isInput ->
         /\ startButtonRendered
         /\ \A perm \in Shuffles(Len(pooled(gameState.successes))), stamp \in 0..MaxNow :
               handleStartRound(gameState, stamp, perm) # gameState
    [] isPlaying ->
         /\ tokensRendered
         /\ \E k \in 1..Len(gameState.tokens) :
               /\ ~gameState.tokens[k].revealed
               /\ tokenOnClick(gameState, gameState.tokens[k]) # gameState
    [] isSummary ->
         /\ continueButtonRendered
         /\ handleNextPhase(gameState) # gameState
    [] OTHER -> FALSE

C22_NotStuck ==
  ~isEnd => /\ OperationAtHand
            /\ minigameShown
                 => ENABLED (startRoundStep \/ revealTokenStep \/ advancePhaseStep)

\* C22: the minigame cannot get stuck and always finishes: in every reachable
\* state with a phase other than end an engine operation that changes the
\* state is enabled (startRound in input, the reveal of an unrevealed token in
\* playing, advancePhase in summary), and when these operations are carried
\* out fairly and the board is not reset, every game eventually reaches phase
\* end.
C22_NeverStuckAndFinishes ==
  /\ []C22_NotStuck
  /\ <>isEnd

\* C22 witness: the game has been played to its end: the advancePhase after
\* the third resolved round has set phase end.
C22_Witness ==
  /\ op.name = "advancePhase"
  /\ isEnd
  /\ gameState.round = 2
  /\ \A i \in 1..3 : gameState.history[i] # null

====
